---------------------------- MODULE Spec2Model ----------------------------
(***************************************************************************)
(* Session-wise multi-timepoint ridge encoding engine of                   *)
(* src/src/utils.py: GLMHelper.MultiDimensionalRidge (the Ridge Bank),     *)
(* GLMHelper.train_mapping (the training orchestrator) and                 *)
(* GLMHelper.predict_from_mapping (the cross-session evaluator).           *)
(*                                                                         *)
(* Arrays are modelled by their shape and by an identifier of their        *)
(* content; a fitted sklearn Ridge object is modelled by its shape and by  *)
(* the data and hyper-parameter it was solved from.  Exceptions are named  *)
(* by the Python class the code raises.                                    *)
(***************************************************************************)
EXTENDS Integers, Sequences, FiniteSets, TLC

\* ------------------------------------------------------------------ bounds
NSessions == 3       \* sessions of the model (session_ids_num holds 10)
MaxT == 2            \* timepoints of a sensor tensor, 0..MaxT

\* --------------------------------------------------------------- constants
DefaultAlpha == 5    \* alpha = 0.5, in tenths

Alphas == {DefaultAlpha, 2 * DefaultAlpha}
FeatureDims == {1, 2}
SensorDims == {3}
SampleCounts == {0, 1}
FeatureIds == {<<1>>}            \* contents of the feature matrices handed to a bank
ContentIds == {<<1>>, <<2>>}     \* contents of one timepoint slice of a sensor tensor
RngStates == {1, 2}              \* states of numpy's global generator
NoId == << >>

Min(S) == CHOOSE x \in S : \A y \in S : x <= y

\* ------------------------------------------------------------------ arrays
\* A feature matrix of shape [n, F] and a sensor tensor of shape [n, S, T];
\* slices[t] identifies the content of Y[:, :, t].
FeatureMatrix(n, F, id) == [n |-> n, F |-> F, id |-> id]
SensorTensor(n, S, slices) == [n |-> n, S |-> S, slices |-> slices]
NTimepoints(Y) == Len(Y.slices)

\* ------------------------------------------------------- sklearn.Ridge
\* Ridge(alpha=...): an estimator without coef_ / intercept_.
RidgeNew(alpha) ==
    [alpha |-> alpha, kind |-> "unfit", nS |-> 0, nF |-> 0, x |-> NoId, y |-> NoId]

\* Ridge.fit(X, Y_t) validates its input: at least one sample, and as many
\* rows in Y_t as in X.
RidgeFitErr(X, Y) ==
    IF X.n = 0 \/ X.n # Y.n THEN "ValueError" ELSE "none"

\* A fit that hands every estimator the first slice.
RidgeFit_FirstSlice(model, X, Y, t) ==
    [model EXCEPT !.kind = "ridge", !.nS = Y.S, !.nF = X.F,
                  !.x = X.id, !.y = Y.slices[1]]

\* Ridge.fit(X, Y[:, :, t]): coef_ of shape (S, F), solved from X, the slice
\* and the estimator's own alpha.
RidgeFit(model, X, Y, t) ==
    [model EXCEPT !.kind = "ridge", !.nS = Y.S, !.nF = X.F,
                  !.x = X.id, !.y = Y.slices[t]]

\* coef_ and intercept_ of model t drawn by np.random.rand(...) - 0.5 from
\* the global generator, which is in state rng when fit starts.
RandomInit(model, nS, nF, rng, t) ==
    [model EXCEPT !.kind = "random", !.nS = nS, !.nF = nF, !.x = NoId, !.y = <<rng, t>>]

\* ------------------------------------------------ MultiDimensionalRidge
Raise(e) == [err |-> e, ret |-> {}]
Return(v) == [err |-> "none", ret |-> {v}]

\* __init__: the three attributes, the models list as passed.
NewRidgeBank(alpha, models, random_weights) ==
    [alpha |-> alpha, random_weights |-> random_weights, models |-> models]

\* A fit that keeps the list object and overwrites its first T entries: the
\* models beyond T survive.
Fit_KeepsOldTail(bank, X, Y, rng) ==
    LET T == NTimepoints(Y)
        old == bank.models
        tail == IF Len(old) > T THEN SubSeq(old, T + 1, Len(old)) ELSE << >>
        new == IF bank.random_weights
               THEN [t \in 1..T |-> RandomInit(RidgeNew(bank.alpha), Y.S, X.F, rng, t)]
               ELSE IF T > 0 /\ RidgeFitErr(X, Y) # "none"
               THEN [t \in 1..T |-> RidgeNew(bank.alpha)]
               ELSE [t \in 1..T |-> RidgeFit(RidgeNew(bank.alpha), X, Y, t)]
    IN  [bank |-> [bank EXCEPT !.models = new \o tail],
         err |-> IF ~bank.random_weights /\ T > 0 THEN RidgeFitErr(X, Y) ELSE "none"]

\* fit: self.models is rebound to T new estimators, which are then filled
\* with random weights or fitted slice by slice; a fit that raises leaves
\* the new, unfitted estimators behind.
Fit(bank, X, Y, rng) ==
    LET T == NTimepoints(Y)
        fresh == [t \in 1..T |-> RidgeNew(bank.alpha)]
    IN  IF bank.random_weights
        THEN [bank |-> [bank EXCEPT !.models =
                          [t \in 1..T |-> RandomInit(fresh[t], Y.S, X.F, rng, t)]],
              err |-> "none"]
        ELSE IF T > 0 /\ RidgeFitErr(X, Y) # "none"
        THEN [bank |-> [bank EXCEPT !.models = fresh], err |-> RidgeFitErr(X, Y)]
        ELSE [bank |-> [bank EXCEPT !.models =
                          [t \in 1..T |-> RidgeFit(fresh[t], X, Y, t)]],
              err |-> "none"]

\* A fit that fills the list object the bank was given: when that object is
\* the default argument's list, the models end up in it.
DefaultModelsAfterFit_InPlace(dm, aliased, fitted) == IF aliased THEN fitted ELSE dm

\* The list object bound to the default models=[] after a fit on a bank,
\* whose models may be that very object (aliased): fit binds self.models to
\* a new list and appends to none.
DefaultModelsAfterFit(dm, aliased, fitted) == dm

\* A random-mode pass that lets X and coef_ of different widths through.
PredictOneErr_Coerce(random_weights, model, X) ==
    IF random_weights
    THEN IF model.kind = "unfit" THEN "AttributeError" ELSE "none"
    ELSE IF model.kind = "unfit" THEN "NotFittedError"
         ELSE IF X.n = 0 THEN "ValueError"
         ELSE IF X.F # model.nF THEN "ValueError"
         ELSE "none"

\* One pass of predict's loop body for model t: the exception it raises, if
\* any.  Random mode multiplies X with coef_.T itself; otherwise
\* Ridge.predict validates X (fitted estimator, at least one sample, the
\* number of features) and multiplies.
PredictOneErr(random_weights, model, X) ==
    IF random_weights
    THEN IF model.kind = "unfit" THEN "AttributeError"
         ELSE IF X.F # model.nF THEN "ValueError"
         ELSE "none"
    ELSE IF model.kind = "unfit" THEN "NotFittedError"
         ELSE IF X.n = 0 THEN "ValueError"
         ELSE IF X.F # model.nF THEN "ValueError"
         ELSE "none"

\* A shape that reads the second axis of coef_ (features) for the sensors.
PredictShape_FeatureAxis(bank, X) == <<X.n, bank.models[1].nF, Len(bank.models)>>

\* (n_samples, n_sensors, n_timepoints) of the predictions array, for a bank
\* whose first model has coef_.
PredictShape(bank, X) == <<X.n, bank.models[1].nS, Len(bank.models)>>

\* predict's loop over the models: the first exception, or the filled array;
\* column t holds model t applied to X.
PredictLoop(bank, X) ==
    LET T == Len(bank.models)
        errs == [t \in 1..T |-> PredictOneErr(bank.random_weights, bank.models[t], X)]
        bad == {t \in 1..T : errs[t] # "none"}
    IN  IF bad # {} THEN Raise(errs[Min(bad)])
        ELSE Return([shape |-> PredictShape(bank, X),
                     cols |-> [t \in 1..T |-> [model |-> bank.models[t], x |-> X.id]]])

\* A predict that guards the empty list and hands back an empty array.
Predict_EmptyBankReturns(bank, X) ==
    IF Len(bank.models) = 0
    THEN Return([shape |-> <<X.n, Len(bank.models), Len(bank.models)>>, cols |-> << >>])
    ELSE IF bank.models[1].kind = "unfit" THEN Raise("AttributeError")
    ELSE PredictLoop(bank, X)

\* predict: self.models[0].coef_ raises on an empty list (IndexError) and on
\* an estimator without coef_ (AttributeError); then the loop.
Predict(bank, X) ==
    IF Len(bank.models) = 0 THEN Raise("IndexError")
    ELSE IF bank.models[1].kind = "unfit" THEN Raise("AttributeError")
    ELSE PredictLoop(bank, X)

\* A predict that consumes the list it walks.
BankAfterPredict_Pops(bank, X) ==
    [bank EXCEPT !.models = IF Len(@) > 0 THEN Tail(@) ELSE @]

\* predict assigns to no attribute of self.
BankAfterPredict(bank, X) == bank

\* ------------------------------------------------------------------ state
VARIABLES
    bank,          \* a MultiDimensionalRidge object used on its own
    life,          \* how bank got its models: "fresh", "given" or "fit"
    out,           \* the last call on bank: its outcome, and predict's argument
    lastFit,       \* the last fit on bank: its arguments, its outcome, and
                   \* whether bank held more models before it than Y has timepoints
    defaultModels  \* the list object bound to __init__'s default models=[]

VARIABLES
    files,         \* the data files: per session and split "ok", "empty" or "absent"
    store,         \* the GLM_models.pkl files, by storage path
    lossesFile,    \* mse_losses_dict.json: no file, or the stored document
    pc,            \* position of the running helper call, "idle" between calls
    im,            \* index of session_id_num / session_id_model in the outer loop
    ip,            \* index of session_id_pred in the inner loop
    ridge,         \* the running call's ridge_model
    losses,        \* the running call's mse_session_losses["session_mapping"]
    result         \* the last finished call and the exception that ended it

VARIABLES
    folders,       \* the folders that exist below the working directory
    saver,         \* per store key, the bank object whose models were last
                   \* written under it (none, or one)
    io,            \* the last save or load of a bank used on its own, and the
                   \* bank object the loaded models were saved from
    report         \* the last visualize_GLM_results call: its arguments, the
                   \* exception that ended it and the series it plotted

VARIABLES
    metadata,      \* the metadata of one session: the meg and the crop metadata
                   \* dicts and, once it is written, the combined one
    trialSplits,   \* the session's trial_splits files: none, or train and test
    cropData,      \* the session's crop_data files: none, or train and test
    megData,       \* the session's meg_data files: none, or train and test
    prep           \* the last call of a MetadataHelper / DatasetHelper function

bankVars == <<bank, life, out, lastFit>>
dataVars == <<metadata, trialSplits, cropData, megData, prep>>
pipeVars == <<files, store, lossesFile, pc, im, ip, ridge, losses, result,
              folders, saver, io, report, dataVars>>
vars == <<bank, life, out, lastFit, defaultModels, files, store, lossesFile, pc, im, ip,
          ridge, losses, result, folders, saver, io, report,
          metadata, trialSplits, cropData, megData, prep>>

NoX == FeatureMatrix(0, 0, NoId)
NoY == SensorTensor(0, 0, << >>)
NoCall == [op |-> "none", err |-> "none", ret |-> {}, X |-> NoX]
NoFit == [X |-> NoX, Y |-> NoY, rng |-> Min(RngStates), shrunk |-> FALSE, err |-> "none"]

BankXs == {FeatureMatrix(n, F, id) : n \in SampleCounts, F \in FeatureDims, id \in FeatureIds}
SliceSeqs == UNION {[1..T -> ContentIds] : T \in 0..MaxT}
BankYs == {SensorTensor(n, S, sl) : n \in SampleCounts, S \in SensorDims, sl \in SliceSeqs}
\* The generator's state matters to a fit in random mode only.
RngStatesFor(b) == IF b.random_weights THEN RngStates ELSE {Min(RngStates)}

\* The module is loaded: the default list exists and is empty; one bank has
\* been constructed with all defaults.
InitBankVars ==
    /\ defaultModels = << >>
    /\ bank = NewRidgeBank(DefaultAlpha, defaultModels, FALSE)
    /\ life = "fresh"
    /\ out = NoCall
    /\ lastFit = NoFit

\* MultiDimensionalRidge(alpha=..., random_weights=...): models defaults to
\* the shared list.
BankConstruct ==
    \E a \in Alphas, rw \in BOOLEAN :
        /\ bank' = NewRidgeBank(a, defaultModels, rw)
        /\ life' = "fresh"
        /\ out' = NoCall
        /\ lastFit' = NoFit
        /\ UNCHANGED <<defaultModels, pipeVars>>

\* MultiDimensionalRidge(alpha=..., models=<the models of an earlier bank>).
BankConstructWith ==
    \E a \in Alphas, rw \in BOOLEAN :
        /\ bank' = NewRidgeBank(a, bank.models, rw)
        /\ life' = "given"
        /\ out' = NoCall
        /\ lastFit' = NoFit
        /\ UNCHANGED <<defaultModels, pipeVars>>

BankFit ==
    \E X \in BankXs, Y \in BankYs :
        \E rng \in RngStatesFor(bank) :
            LET r == Fit(bank, X, Y, rng)
            IN  /\ bank' = r.bank
                /\ life' = "fit"
                /\ out' = [op |-> "fit", err |-> r.err, ret |-> {}, X |-> NoX]
                /\ lastFit' = [X |-> X, Y |-> Y, rng |-> rng,
                               shrunk |-> Len(bank.models) > NTimepoints(Y),
                               err |-> r.err]
                /\ defaultModels' = DefaultModelsAfterFit(defaultModels, life = "fresh",
                                                          r.bank.models)
                /\ UNCHANGED pipeVars

BankPredict ==
    \E X \in BankXs :
        LET r == Predict(bank, X)
        IN  /\ bank' = BankAfterPredict(bank, X)
            /\ out' = [op |-> "predict", err |-> r.err, ret |-> r.ret, X |-> X]
            /\ UNCHANGED <<life, lastFit, defaultModels, pipeVars>>

NextBank == BankConstruct \/ BankConstructWith \/ BankFit \/ BankPredict

\* ---------------------------------------------------------- the data files
Sessions == 1..NSessions          \* session_ids_num, by position
Splits == {"train", "test"}
FileKinds == {"ok", "empty", "absent"}
\* ExtractionHelper's ann_model and module_name, BasicOperationsHelper's
\* subject_id: the defaults GLMHelper is constructed with.
AnnModel == "Resnet50"
ModuleName == "fc"
SubjectId == "02"
\* Every session's arrays come from one extractor layer and one sensor and
\* timepoint selection: F, S and T are those of the data set; n is 0 for an
\* empty split.
DataShape == [F |-> 2, S |-> 3, T |-> MaxT, n |-> 1]

ArrayOf(fs, s, split, content) ==
    LET n == IF fs[s][split] = "empty" THEN 0 ELSE DataShape.n
    IN  IF content = "ann_features"
        THEN FeatureMatrix(n, DataShape.F, <<s, split>>)
        ELSE SensorTensor(n, DataShape.S, [t \in 1..DataShape.T |-> <<s, split, t>>])

\* A loader that hands out the arrays of the session before.
LoadSplitData_Stale(fs, s, content) ==
    LET q == IF s > 1 THEN s - 1 ELSE s
    IN  IF \E split \in Splits : fs[q][split] = "absent"
        THEN Raise("FileNotFoundError")
        ELSE Return([split \in Splits |-> ArrayOf(fs, q, split, content)])

\* load_split_data_from_file: np.load of the train and of the test file;
\* a missing file raises.
LoadSplitData(fs, s, content) ==
    IF \E split \in Splits : fs[s][split] = "absent"
    THEN Raise("FileNotFoundError")
    ELSE Return([split \in Splits |-> ArrayOf(fs, s, split, content)])

Only(S) == CHOOSE v \in S : TRUE

\* ------------------------------------------------------- the model store
\* A store key: (ann_model, module_name, subject_id, session id).  The names
\* are those the repository uses; the session ids are session_ids_num.
AnnModels == {"Resnet50", "Alexnet"}
ModuleNames == {"fc", "features.12"}
SubjectIds == {"02", "01"}
SessionIdNum(s) == ToString(s)
AllKeys == AnnModels \X ModuleNames \X SubjectIds \X {SessionIdNum(s) : s \in Sessions}
\* The key of session s for a helper constructed with the defaults.
KeyOf(s) == <<AnnModel, ModuleName, SubjectId, SessionIdNum(s)>>

\* A folder name that leaves the session out.
SaveFolder_NoSession(k) ==
    "data_files/GLM_models/" \o k[1] \o "/" \o k[2] \o "/subject_" \o k[3]

\* save_folder / storage_folder: the f-string of train_mapping and of
\* predict_from_mapping.
SaveFolder(k) ==
    "data_files/GLM_models/" \o k[1] \o "/" \o k[2] \o "/subject_" \o k[3]
        \o "/session_" \o k[4]

SaveFile == "GLM_models.pkl"
\* os.path.join(save_folder, save_file), for every key (tabulated once).
SavePaths == [k \in AllKeys |-> SaveFolder(k) \o "/" \o SaveFile]
SavePath(k) == SavePaths[k]

StoragePath(s) == SavePath(KeyOf(s))
StoragePaths == {StoragePath(s) : s \in Sessions}

\* The folders os.makedirs(save_folder) makes sure of: save_folder and every
\* folder above it.
FolderChains ==
    [k \in AllKeys |->
        LET root == "data_files"
            glm == root \o "/GLM_models"
            ann == glm \o "/" \o k[1]
            layer == ann \o "/" \o k[2]
            subject == layer \o "/subject_" \o k[3]
        IN  {root, glm, ann, layer, subject, SaveFolder(k)}]
FolderChain(k) == FolderChains[k]
SaveFolders == [k \in AllKeys |-> SaveFolder(k)]

\* A makedirs without the exists test before it: FileExistsError on a folder
\* that is there.
EnsureFolder_NoExistsTest(fo, k) ==
    IF SaveFolders[k] \in fo THEN [folders |-> fo, err |-> "FileExistsError"]
    ELSE [folders |-> fo \cup FolderChain(k), err |-> "none"]

\* if not os.path.exists(save_folder): os.makedirs(save_folder)
EnsureFolder(fo, k) ==
    IF SaveFolders[k] \in fo THEN [folders |-> fo, err |-> "none"]
    ELSE [folders |-> fo \cup FolderChain(k), err |-> "none"]

PickleDump(models) == [pickle |-> models]
PickleLoad(blob) == blob.pickle

\* A file whose bytes are not a complete pickle stream: cut short (a write
\* that was interrupted) or overwritten with other bytes.
DamageKinds == {"truncated", "garbled"}
DamagedBlob(kind) == [damage |-> kind]
Damaged(blob) == "damage" \in DOMAIN blob
\* pickle.load on such a file.
PickleLoadErr(blob) ==
    IF ~Damaged(blob) THEN "none"
    ELSE IF blob.damage = "truncated" THEN "EOFError"
    ELSE "UnpicklingError"

\* open(save_path, 'wb') truncates or creates the file, and needs its folder;
\* pickle.dump(ridge_model.models, file).
WriteBlob(st, fo, k, models) ==
    IF SaveFolders[k] \notin fo THEN [store |-> st, err |-> "FileNotFoundError"]
    ELSE [store |-> [st EXCEPT ![SavePath(k)] = {PickleDump(models)}], err |-> "none"]

\* A store step that writes the models over every file of the store.
SaveModels_EveryFile(st, fo, k, models) ==
    [store |-> [p \in DOMAIN st |-> {PickleDump(models)}],
     folders |-> EnsureFolder(fo, k).folders, err |-> "none"]

\* The store step of train_mapping: the folder, then the file.
SaveModels(st, fo, k, models) ==
    LET e == EnsureFolder(fo, k)
        w == WriteBlob(st, e.folders, k, models)
    IN  IF e.err # "none" THEN [store |-> st, folders |-> e.folders, err |-> e.err]
        ELSE [store |-> w.store, folders |-> e.folders, err |-> w.err]

\* A load that reports a damaged file as a missing one.
LoadBlob_DamagedAsMissing(st, path) ==
    IF st[path] = {} THEN Raise("FileNotFoundError")
    ELSE IF PickleLoadErr(Only(st[path])) # "none" THEN Raise("FileNotFoundError")
    ELSE Return(PickleLoad(Only(st[path])))

\* open(storage_path, 'rb') raises when there is no file; pickle.load raises
\* on a file that is no pickle stream.
LoadBlob(st, path) ==
    IF st[path] = {} THEN Raise("FileNotFoundError")
    ELSE IF PickleLoadErr(Only(st[path])) # "none"
    THEN Raise(PickleLoadErr(Only(st[path])))
    ELSE Return(PickleLoad(Only(st[path])))

\* A load that falls back on another session's file when its own is missing.
LoadModels_FallsBack(st, s) ==
    LET have == {k \in Sessions : st[StoragePath(k)] # {}}
    IN  IF st[StoragePath(s)] # {}
        THEN Return(PickleLoad(Only(st[StoragePath(s)])))
        ELSE IF have = {} THEN Raise("FileNotFoundError")
        ELSE Return(PickleLoad(Only(st[StoragePath(Min(have))])))

\* The load step of predict_from_mapping for session s.
LoadModels(st, s) == LoadBlob(st, StoragePath(s))

\* ------------------------------------------------------------ the losses
\* sklearn's mean_squared_error on the two flattened arrays: they must hold
\* the same, non-zero number of values.
MeanSquaredError(Y, pred) ==
    LET nTrue == Y.n * Y.S * NTimepoints(Y)
        nPred == pred.shape[1] * pred.shape[2] * pred.shape[3]
    IN  IF nTrue # nPred \/ nTrue = 0 THEN Raise("ValueError")
        ELSE Return([y_true |-> Y.slices, y_pred |-> pred.cols])

\* mse_session_losses["session_mapping"][m] = {"session_pred": {}}
AddRow(ls, m) == [k \in DOMAIN ls \cup {m} |-> IF k = m THEN << >> ELSE ls[k]]

\* A recording that leaves out the self-prediction of a session.
RecordLoss_SkipsDiagonal(ls, m, p, mse) ==
    IF m = p THEN ls
    ELSE [ls EXCEPT ![m] = [k \in DOMAIN ls[m] \cup {p} |-> IF k = p THEN mse ELSE ls[m][k]]]

\* A recording that also writes the value into the mirrored cell, when the
\* row of p is there.
RecordLoss_Mirrors(ls, m, p, mse) ==
    [r \in DOMAIN ls |->
        IF r = m
        THEN [k \in DOMAIN ls[m] \cup {p} |-> IF k = p THEN mse ELSE ls[m][k]]
        ELSE IF r = p
        THEN [k \in DOMAIN ls[p] \cup {m} |-> IF k = m THEN mse ELSE ls[p][k]]
        ELSE ls[r]]

\* A recording that puts a new dict in the row's place.
RecordLoss_ReplacesRow(ls, m, p, mse) ==
    [ls EXCEPT ![m] = [k \in {p} |-> mse]]

\* mse_session_losses["session_mapping"][m]["session_pred"][p] = mse
RecordLoss(ls, m, p, mse) ==
    [ls EXCEPT ![m] = [k \in DOMAIN ls[m] \cup {p} |-> IF k = p THEN mse ELSE ls[m][k]]]

\* ------------------------------------------------- mse_losses_dict.json
\* A key of a Python dict: its type and its text.  The model's matrices are
\* indexed by the position of a session in session_ids_num; the dict that
\* predict_from_mapping builds is keyed by the session ids themselves.
PyStr(text) == [type |-> "str", text |-> text]

\* Session ids kept as the numbers of range(1,11).
SessionKey_Int(s) == [type |-> "int", text |-> ToString(s)]

\* session_ids_num = [str(session_id) for session_id in range(1,11)]
SessionKey(s) == PyStr(SessionIdNum(s))

\* A dict that is started anew for every model session: only the last row.
MseLossesDict_LastRow(ls) ==
    LET last == {m \in DOMAIN ls : \A n \in DOMAIN ls : n <= m}
    IN  [session_mapping |->
            [k \in {SessionKey(m) : m \in last} |->
                LET m == CHOOSE m \in last : SessionKey(m) = k
                IN  [session_pred |->
                        [q \in {SessionKey(p) : p \in DOMAIN ls[m]} |->
                            LET p == CHOOSE p \in DOMAIN ls[m] : SessionKey(p) = q
                            IN  ls[m][p]]]]]

\* mse_session_losses as predict_from_mapping holds it for the matrix ls:
\* {"session_mapping": {m: {"session_pred": {p: mse}}}}
MseLossesDict(ls) ==
    [session_mapping |->
        [k \in {SessionKey(m) : m \in DOMAIN ls} |->
            LET m == CHOOSE m \in DOMAIN ls : SessionKey(m) = k
            IN  [session_pred |->
                    [q \in {SessionKey(p) : p \in DOMAIN ls[m]} |->
                        LET p == CHOOSE p \in DOMAIN ls[m] : SessionKey(p) = q
                        IN  ls[m][p]]]]]

\* json.dump writes a float as float.__repr__ gives it, the shortest decimal
\* text that parses back to the same double.
JsonNumber(v) == [number |-> v]
ParseNumber(n) == n.number

\* json.dump(dict_to_store, file, indent=4): the document.  A member's name
\* is the key's text, whether the key was a str or an int.
JsonDump(d) ==
    [session_mapping |->
        [name \in {k.text : k \in DOMAIN d.session_mapping} |->
            LET row == d.session_mapping[
                           CHOOSE k \in DOMAIN d.session_mapping : k.text = name]
            IN  [session_pred |->
                    [name2 \in {q.text : q \in DOMAIN row.session_pred} |->
                        JsonNumber(row.session_pred[
                            CHOOSE q \in DOMAIN row.session_pred : q.text = name2])]]]]

\* json.load(data_file): every member name comes back as a str key.
JsonLoad(doc) ==
    [session_mapping |->
        [k \in {PyStr(name) : name \in DOMAIN doc.session_mapping} |->
            LET row == doc.session_mapping[k.text]
            IN  [session_pred |->
                    [q \in {PyStr(name2) : name2 \in DOMAIN row.session_pred} |->
                        ParseNumber(row.session_pred[q.text])]]]]

\* The folder and the file of the losses dict, as save_dict_as_json builds
\* them, and the path read_dict_from_json opens.
LossesFolder(ann, module, subject) ==
    "data_files/mse_losses/" \o ann \o "/" \o module \o "/subject_" \o subject
LossesSavePath(ann, module, subject) ==
    LossesFolder(ann, module, subject) \o "/" \o "mse_losses" \o "_dict.json"
LossesReadPath(ann, module, subject) ==
    "data_files/mse_losses/" \o ann \o "/" \o module \o "/subject_" \o subject
        \o "/mse_losses_dict.json"

\* save_dict_as_json("mse_losses", d): what the file holds afterwards.
SaveDictAsJson(d) == JsonDump(d)

\* read_dict_from_json("mse_losses") on a set of at most one file.
ReadDictFromJson(file) ==
    IF file = {} THEN Raise("FileNotFoundError") ELSE Return(JsonLoad(Only(file)))

\* The matrix a reader of the loaded dict works on: the rows and columns of
\* the str keys that are session ids.
MatrixOf(d) ==
    [m \in {s \in Sessions : PyStr(SessionIdNum(s)) \in DOMAIN d.session_mapping} |->
        LET row == d.session_mapping[PyStr(SessionIdNum(m))].session_pred
        IN  [p \in {s \in Sessions : PyStr(SessionIdNum(s)) \in DOMAIN row} |->
                row[PyStr(SessionIdNum(p))]]]

\* An evaluator that scores on the data the models were fitted on.
EvalSplit_Train == "train"

\* The split the evaluator reads from the loaded arrays.
EvalSplit == "test"

NoResult == [op |-> "none", err |-> "none"]
Ended(op, e) == [op |-> op, err |-> e]
NoKey == << >>
NoIo == [op |-> "none", key |-> NoKey, err |-> "none", ret |-> {}, saw |-> "none",
         replaced |-> FALSE, origin |-> {}]
\* No visualize_GLM_results call yet, in either mode (only_distance or not).
NotRun == [op |-> "none", err |-> "none"]
NoReport == [only_distance \in BOOLEAN |-> NotRun]

\* No metadata has been read and no data set has been built.
NoMetadata == [meg_metadata |-> << >>, crop_metadata |-> << >>, combined_metadata |-> {}]
NoPrep == [op |-> "none", err |-> "none", visits |-> << >>]
InitDataVars ==
    /\ metadata = NoMetadata
    /\ trialSplits = {}
    /\ cropData = {}
    /\ megData = {}
    /\ prep = NoPrep

\* ------------------------------------------------------------ GLMHelper
InitPipeVars(fs) ==
    /\ files = fs
    /\ store = [p \in StoragePaths |-> {}]
    /\ lossesFile = {}
    /\ pc = "idle"
    /\ im = 1
    /\ ip = 1
    /\ ridge = NewRidgeBank(DefaultAlpha, << >>, FALSE)
    /\ losses = << >>
    /\ result = NoResult
    /\ folders = {}
    /\ saver = << >>
    /\ io = NoIo
    /\ report = NoReport
    /\ InitDataVars

Init ==
    /\ InitBankVars
    /\ \E fs \in [Sessions -> [Splits -> FileKinds]] : InitPipeVars(fs)

\* main calls glm_helper.train_mapping().
TrainMappingCall ==
    /\ pc = "idle"
    /\ pc' = "train"
    /\ im' = 1
    /\ UNCHANGED <<files, store, lossesFile, ip, ridge, losses, result,
                   folders, saver, io, report, bankVars, defaultModels, dataVars>>

\* One iteration of train_mapping's loop; the last iteration returns.
TrainSession ==
    /\ pc = "train"
    /\ LET feats == LoadSplitData(files, im, "ann_features")
           meg == LoadSplitData(files, im, "meg_data")
           fresh == NewRidgeBank(DefaultAlpha, defaultModels, FALSE)
       IN  IF feats.err # "none" \/ meg.err # "none"
           THEN /\ pc' = "idle"
                /\ result' = Ended("train_mapping",
                                   IF feats.err # "none" THEN feats.err ELSE meg.err)
                /\ UNCHANGED <<store, folders, ridge, im, defaultModels>>
           ELSE LET r == Fit(fresh, Only(feats.ret)["train"], Only(meg.ret)["train"], Min(RngStates))
                    w == SaveModels(store, folders, KeyOf(im), r.bank.models)
                IN  /\ ridge' = r.bank
                    /\ defaultModels' = DefaultModelsAfterFit(defaultModels, TRUE,
                                                              r.bank.models)
                    /\ IF r.err # "none"
                       THEN /\ pc' = "idle"
                            /\ result' = Ended("train_mapping", r.err)
                            /\ UNCHANGED <<store, folders, im>>
                       ELSE /\ store' = w.store
                            /\ folders' = w.folders
                            /\ IF w.err # "none"
                               THEN /\ pc' = "idle"
                                    /\ result' = Ended("train_mapping", w.err)
                                    /\ UNCHANGED im
                               ELSE IF im < NSessions
                               THEN /\ im' = im + 1
                                    /\ UNCHANGED <<pc, result>>
                               ELSE /\ pc' = "idle"
                                    /\ result' = Ended("train_mapping", "none")
                                    /\ UNCHANGED im
    /\ UNCHANGED <<files, lossesFile, ip, losses, saver, io, report, bankVars,
                   dataVars>>

\* main calls glm_helper.predict_from_mapping(): the empty losses dict.
PredictFromMappingCall ==
    /\ pc = "idle"
    /\ pc' = "load"
    /\ im' = 1
    /\ ip' = 1
    /\ losses' = << >>
    /\ UNCHANGED <<files, store, lossesFile, ridge, result, folders, saver, io, report,
                   bankVars, defaultModels, dataVars>>

\* The head of the outer loop's body: the row, the stored models, the bank.
PredictLoadModel ==
    /\ pc = "load"
    /\ losses' = AddRow(losses, im)
    /\ LET stored == LoadModels(store, im)
       IN  IF stored.err # "none"
           THEN /\ pc' = "idle"
                /\ result' = Ended("predict_from_mapping", stored.err)
                /\ UNCHANGED <<ridge, ip>>
           ELSE /\ ridge' = NewRidgeBank(DefaultAlpha, Only(stored.ret), FALSE)
                /\ pc' = "pair"
                /\ ip' = 1
                /\ UNCHANGED result
    /\ UNCHANGED <<files, store, lossesFile, im, folders, saver, io, report, bankVars,
                   defaultModels, dataVars>>

\* One iteration of the inner loop; after the last pair of all the dict is
\* stored with save_dict_as_json and the call returns.
PredictPair ==
    /\ pc = "pair"
    /\ LET feats == LoadSplitData(files, ip, "ann_features")
           meg == LoadSplitData(files, ip, "meg_data")
       IN  IF feats.err # "none" \/ meg.err # "none"
           THEN /\ pc' = "idle"
                /\ result' = Ended("predict_from_mapping",
                                   IF feats.err # "none" THEN feats.err ELSE meg.err)
                /\ UNCHANGED <<losses, lossesFile, im, ip, ridge>>
           ELSE LET X_test == Only(feats.ret)[EvalSplit]
                    Y_test == Only(meg.ret)[EvalSplit]
                    predictions == Predict(ridge, X_test)
                    mse == IF predictions.err # "none" THEN predictions
                           ELSE MeanSquaredError(Y_test, Only(predictions.ret))
                IN  /\ ridge' = BankAfterPredict(ridge, X_test)
                    /\ IF mse.err # "none"
                       THEN /\ pc' = "idle"
                            /\ result' = Ended("predict_from_mapping", mse.err)
                            /\ UNCHANGED <<losses, lossesFile, im, ip>>
                       ELSE /\ losses' = RecordLoss(losses, im, ip, Only(mse.ret))
                            /\ IF ip < NSessions
                               THEN /\ ip' = ip + 1
                                    /\ UNCHANGED <<pc, im, lossesFile, result>>
                               ELSE IF im < NSessions
                               THEN /\ im' = im + 1
                                    /\ pc' = "load"
                                    /\ UNCHANGED <<ip, lossesFile, result>>
                               ELSE /\ lossesFile' = {SaveDictAsJson(MseLossesDict(losses'))}
                                    /\ pc' = "idle"
                                    /\ result' = Ended("predict_from_mapping", "none")
                                    /\ UNCHANGED <<im, ip>>
    /\ UNCHANGED <<files, store, folders, saver, io, report, bankVars, defaultModels, dataVars>>

Next ==
    \/ TrainMappingCall
    \/ TrainSession
    \/ PredictFromMappingCall
    \/ PredictLoadModel
    \/ PredictPair

Spec == Init /\ [][Next]_vars

\* Between two helper calls a data file of a session goes missing.
LoseDataFile ==
    /\ pc = "idle"
    /\ \E s \in Sessions, split \in Splits :
           /\ files[s][split] # "absent"
           /\ files' = [files EXCEPT ![s][split] = "absent"]
    /\ UNCHANGED <<store, lossesFile, pc, im, ip, ridge, losses, result, folders, saver,
                   io, report, bankVars, defaultModels, dataVars>>

\* The helper calls with files that can go missing between them.
NextEval == Next \/ LoseDataFile

SpecEval == Init /\ [][NextEval]_vars

\* The bank on its own: construct, fit and predict in any order, with any
\* arguments of the bounded sets; no helper call runs.
InitBank ==
    /\ InitBankVars
    /\ InitPipeVars([s \in Sessions |-> [split \in Splits |-> "ok"]])

SpecBank == InitBank /\ [][NextBank]_vars

\* ------------------------------------------------- the store on its own
\* Banks of either mode are fitted, written and read back with the store
\* steps of train_mapping and predict_from_mapping, under keys of several
\* helpers; a file can be left damaged.
StoreKeys ==
    {<<"Resnet50", "fc", "02", SessionIdNum(1)>>,
     <<"Resnet50", "fc", "02", SessionIdNum(2)>>,
     <<"Alexnet", "features.12", "01", SessionIdNum(1)>>}
StoreFiles == [s \in Sessions |-> [split \in Splits |-> "ok"]]
StoreX == ArrayOf(StoreFiles, 1, "train", "ann_features")
StoreY == ArrayOf(StoreFiles, 1, "train", "meg_data")

\* What open() finds at a path.
BlobKind(st, path) ==
    IF st[path] = {} THEN "absent"
    ELSE IF Damaged(Only(st[path])) THEN "damaged"
    ELSE "intact"

InitStore ==
    /\ InitBankVars
    /\ files = StoreFiles
    /\ store = [p \in {SavePath(k) : k \in StoreKeys} |-> {}]
    /\ lossesFile = {}
    /\ pc = "idle"
    /\ im = 1
    /\ ip = 1
    /\ ridge = NewRidgeBank(DefaultAlpha, << >>, FALSE)
    /\ losses = << >>
    /\ result = NoResult
    /\ folders = {}
    /\ saver = [k \in StoreKeys |-> {}]
    /\ io = NoIo
    /\ report = NoReport
    /\ InitDataVars

\* ridge_model = MultiDimensionalRidge(...); ridge_model.fit(X_train, Y_train)
StoreFit ==
    \E a \in Alphas, rw \in BOOLEAN :
        LET r == Fit(NewRidgeBank(a, defaultModels, rw), StoreX, StoreY, Min(RngStates))
        IN  /\ bank' = r.bank
            /\ life' = "fit"
            /\ out' = NoCall
            /\ lastFit' = [X |-> StoreX, Y |-> StoreY, rng |-> Min(RngStates),
                           shrunk |-> FALSE, err |-> r.err]
            /\ io' = NoIo
            /\ defaultModels' = DefaultModelsAfterFit(defaultModels, TRUE, r.bank.models)
            /\ UNCHANGED <<files, store, lossesFile, pc, im, ip, ridge,
                           losses, result, folders, saver, report, dataVars>>

\* The store step of train_mapping on the fitted bank, under key k.
StoreSave ==
    /\ life = "fit"
    /\ \E k \in StoreKeys :
           LET w == SaveModels(store, folders, k, bank.models)
           IN  /\ store' = w.store
               /\ folders' = w.folders
               /\ saver' = IF w.err = "none" THEN [saver EXCEPT ![k] = {bank}] ELSE saver
               /\ io' = [op |-> "save", key |-> k, err |-> w.err, ret |-> {},
                         saw |-> BlobKind(store, SavePath(k)),
                         replaced |-> store[SavePath(k)] \notin {{}, {PickleDump(bank.models)}},
                         origin |-> {}]
    /\ out' = NoCall
    /\ UNCHANGED <<bank, life, lastFit, defaultModels, files, lossesFile, pc, im, ip,
                   ridge, losses, result, report, dataVars>>

\* The load step of predict_from_mapping under key k: the pickled list, and
\* MultiDimensionalRidge(alpha=0.5, models=ridge_models) around it.
StoreLoad ==
    /\ \E k \in StoreKeys :
           LET r == LoadBlob(store, SavePath(k))
           IN  /\ io' = [op |-> "load", key |-> k, err |-> r.err, ret |-> r.ret,
                         saw |-> BlobKind(store, SavePath(k)),
                         replaced |-> FALSE,
                         origin |-> IF r.err = "none" THEN saver[k] ELSE io.origin]
               /\ IF r.err = "none"
                  THEN /\ bank' = NewRidgeBank(DefaultAlpha, Only(r.ret), FALSE)
                       /\ life' = "loaded"
                  ELSE UNCHANGED <<bank, life>>
    /\ out' = NoCall
    /\ UNCHANGED <<lastFit, defaultModels, files, store, lossesFile, pc, im, ip, ridge,
                   losses, result, folders, saver, report, dataVars>>

\* A stored file loses its content: the write was cut short, or other bytes
\* took its place.
StoreDamage ==
    /\ \E k \in StoreKeys, kind \in DamageKinds :
           /\ BlobKind(store, SavePath(k)) = "intact"
           /\ store' = [store EXCEPT ![SavePath(k)] = {DamagedBlob(kind)}]
           /\ saver' = [j \in DOMAIN saver |->
                           IF SavePath(j) = SavePath(k) THEN {} ELSE saver[j]]
    /\ UNCHANGED <<bankVars, defaultModels, files, lossesFile, pc, im, ip, ridge,
                   losses, result, folders, io, report, dataVars>>

NextStore == StoreFit \/ StoreSave \/ StoreLoad \/ StoreDamage \/ BankPredict

SpecStore == InitStore /\ [][NextStore]_vars

\* ------------------------------------------------ VisualizationHelper
\* An mse is a float; the model takes small naturals for it and keeps a
\* quotient as numerator and denominator.
Quot(a, b) == [num |-> a, den |-> b]
SameQuot(q, r) == q.num * r.den = r.num * q.den

RECURSIVE SortedSeq(_)
SortedSeq(S) == IF S = {} THEN << >> ELSE <<Min(S)>> \o SortedSeq(S \ {Min(S)})

\* The (train_session, pred_session) pairs in the order in which the two
\* nested loops over the dict's items visit them.
RECURSIVE RowCells(_, _)
RowCells(m, cols) ==
    IF cols = << >> THEN << >> ELSE <<<<m, Head(cols)>>>> \o RowCells(m, Tail(cols))
RECURSIVE CellSeqFrom(_, _)
CellSeqFrom(ls, rows) ==
    IF rows = << >> THEN << >>
    ELSE RowCells(Head(rows), SortedSeq(DOMAIN ls[Head(rows)]))
             \o CellSeqFrom(ls, Tail(rows))
CellSeq(ls) == CellSeqFrom(ls, SortedSeq(DOMAIN ls))

\* A distance that keeps its sign.
Distance_Signed(m, p) == m - p

\* abs(int(train_session) - int(pred_session))
Distance(m, p) == IF m > p THEN m - p ELSE p - m

\* if train_session != pred_session
IsOtherSession(m, p) == m # p

\* The first double loop of the only_distance branch: per distance the sum
\* of the losses and their number.
RECURSIVE LossesByDistances(_, _, _)
LossesByDistances(ls, cells, acc) ==
    IF cells = << >> THEN acc
    ELSE LET m == Head(cells)[1]
             p == Head(cells)[2]
             mse == ls[m][p]
             d == Distance(m, p)
             next ==
                 IF ~IsOtherSession(m, p) THEN acc
                 ELSE IF d \notin DOMAIN acc
                 THEN [k \in DOMAIN acc \cup {d} |->
                          IF k = d THEN [loss |-> mse, num_losses |-> 1] ELSE acc[k]]
                 ELSE [acc EXCEPT ![d] = [loss |-> @.loss + mse,
                                          num_losses |-> @.num_losses + 1]]
         IN  LossesByDistances(ls, Tail(cells), next)

\* range(1,10): the distances between the ten sessions of session_ids_num,
\* here the distances between the NSessions sessions of the model.
DistanceRange == 1..(NSessions - 1)

\* The only_distance branch up to its plot: avg_losses and num_datapoints
\* over the fixed range of distances; a distance without losses is a
\* KeyError.
AverageByDistance(ls) ==
    LET acc == LossesByDistances(ls, CellSeq(ls), << >>)
    IN  IF \E d \in DistanceRange : d \notin DOMAIN acc THEN Raise("KeyError")
        ELSE Return([avg_losses |->
                         [d \in DistanceRange |-> Quot(acc[d].loss, acc[d].num_losses)],
                     num_datapoints |-> [d \in DistanceRange |-> acc[d].num_losses]])

\* A baseline that takes each session's first recorded loss.
SelfPredictionMses_FirstOfRow(ls) ==
    IF \E s \in DOMAIN ls : DOMAIN ls[s] = {} THEN Raise("KeyError")
    ELSE Return([s \in DOMAIN ls |-> ls[s][Min(DOMAIN ls[s])]])

\* self_prediction_mses[session] = ...[session]['session_pred'][session]
SelfPredictionMses(ls) ==
    IF \E s \in DOMAIN ls : s \notin DOMAIN ls[s] THEN Raise("KeyError")
    ELSE Return([s \in DOMAIN ls |-> ls[s][s]])

\* average_prediction_mses[pred_session] += mse over the other sessions'
\* rows, starting from 0 for every session that has a row.
RECURSIVE SumPerPredSession(_, _, _)
SumPerPredSession(ls, cells, acc) ==
    IF cells = << >> THEN Return(acc)
    ELSE LET m == Head(cells)[1]
             p == Head(cells)[2]
         IN  IF ~IsOtherSession(m, p) THEN SumPerPredSession(ls, Tail(cells), acc)
             ELSE IF p \notin DOMAIN acc THEN Raise("KeyError")
             ELSE SumPerPredSession(ls, Tail(cells), [acc EXCEPT ![p] = @ + ls[m][p]])

\* num_other_sessions = len(self.session_ids_num) - 1
NumOtherSessions == NSessions - 1

\* The other branch up to its plots: the self-prediction series and the
\* average over the other sessions.
AverageBySession(ls) ==
    LET self == SelfPredictionMses(ls)
        sums == SumPerPredSession(ls, CellSeq(ls), [s \in DOMAIN ls |-> 0])
    IN  IF self.err # "none" THEN Raise(self.err)
        ELSE IF sums.err # "none" THEN Raise(sums.err)
        ELSE IF NumOtherSessions = 0 /\ DOMAIN ls # {} THEN Raise("ZeroDivisionError")
        ELSE Return([self_prediction_mses |-> Only(self.ret),
                     average_prediction_mses |->
                         [s \in DOMAIN ls |-> Quot(Only(sums.ret)[s], NumOtherSessions)],
                     rows |-> ls])

\* The files save_plot_as_file writes.
PlotFiles(ls, only_distance, separate_plots) ==
    IF only_distance THEN {"MSE_plot_over_distance.png"}
    ELSE IF separate_plots
    THEN {"MSE_plot_session" \o SessionIdNum(m) \o ".png" : m \in DOMAIN ls}
    ELSE {"MSE_plot_all_sessions.png"}

\* mse_session_losses = self.read_dict_from_json(type_of_content="mse_losses"),
\* as the loops over its items see it.
ReadLosses(file) ==
    LET read == ReadDictFromJson(file)
    IN  IF read.err # "none" THEN Raise(read.err) ELSE Return(MatrixOf(Only(read.ret)))

\* The error matrices a losses file can hold: over the first n sessions, or
\* over all sessions with one value missing; the values rise along the rows
\* and along the columns by a and b.
LossCoefs == 0..2
LossValue(a, b, m, p) == a * m + b * p
CellPatterns ==
    {(1..n) \X (1..n) : n \in 1..NSessions}
        \cup {(Sessions \X Sessions) \ {c} : c \in Sessions \X Sessions}
MatrixOver(cells, a, b) ==
    [m \in {c[1] : c \in cells} |->
        [p \in {c[2] : c \in {x \in cells : x[1] = m}} |-> LossValue(a, b, m, p)]]
LossFiles == {MatrixOver(cells, a, b) : cells \in CellPatterns, a \in LossCoefs, b \in LossCoefs}

InitAgg ==
    /\ InitBankVars
    /\ files = StoreFiles
    /\ store = [p \in StoragePaths |-> {}]
    /\ lossesFile \in {{SaveDictAsJson(MseLossesDict(f))} : f \in LossFiles} \cup {{}}
    /\ pc = "idle"
    /\ im = 1
    /\ ip = 1
    /\ ridge = NewRidgeBank(DefaultAlpha, << >>, FALSE)
    /\ losses = << >>
    /\ result = NoResult
    /\ folders = {}
    /\ saver = << >>
    /\ io = NoIo
    /\ report = NoReport
    /\ InitDataVars

\* visualize_GLM_results(only_distance, separate_plots): the dict is read,
\* the series of the chosen branch are computed and plotted, the plot files
\* are written; an exception ends the call before any plot.
VisualizeGLMResults ==
    /\ \E only_distance \in BOOLEAN, separate_plots \in BOOLEAN :
           LET read == ReadLosses(lossesFile)
               series == IF read.err # "none" THEN read
                         ELSE IF only_distance THEN AverageByDistance(Only(read.ret))
                         ELSE AverageBySession(Only(read.ret))
           IN  report' = [report EXCEPT ![only_distance] =
                            [op |-> "visualize_GLM_results",
                             separate_plots |-> separate_plots,
                             err |-> series.err,
                             series |-> series.ret,
                             plots |-> IF series.err # "none" THEN {}
                                       ELSE PlotFiles(Only(read.ret), only_distance,
                                                      separate_plots)]]
    /\ UNCHANGED <<bankVars, defaultModels, files, store, lossesFile, pc, im, ip, ridge,
                   losses, result, folders, saver, io, dataVars>>

NextAgg == VisualizeGLMResults

SpecAgg == InitAgg /\ [][NextAgg]_vars

\* ------------------------------------- MetadataHelper and DatasetHelper
\* The functions that build the data sets of a session from its metadata.
\* Their loops treat every session on its own; the model follows one
\* session.  All dicts are read from json, so every id is a str; the model
\* numbers trials and timepoints.
TrialIds == {1, 2, 3}
TimepointIds == {1, 2}
SceneIds == {"a", "b", "c"}

InSeq(x, seq) == \E i \in 1..Len(seq) : seq[i] = x

\* meg_metadata["sessions"][s]["trials"]: the trials in the order of the
\* epochs file, each with its timepoints in that order.
TimepointSeqs == {[i \in 1..n |-> i] : n \in TimepointIds}
MegMetadatas ==
    UNION {{[i \in 1..n |-> [trial |-> i, timepoints |-> tps[i]]] :
               tps \in [1..n -> TimepointSeqs]} : n \in TrialIds}

\* The (trial, timepoint) pairs of the meg metadata.
MegPairs(meg) ==
    UNION {{<<meg[i].trial, meg[i].timepoints[j]>> : j \in 1..Len(meg[i].timepoints)} :
              i \in 1..Len(meg)}

\* crop_metadata["sessions"][s]["trials"]: the sceneID of every (trial,
\* timepoint) that has a crop.
CropMetadatas(meg) == UNION {[P -> SceneIds] : P \in SUBSET MegPairs(meg)}

\* The innermost loop of create_combined_metadata_dict over one trial: a
\* timepoint without a crop is passed over (except: pass), meg_index counts
\* every timepoint.
RECURSIVE JoinTimepoints(_, _, _, _)
JoinTimepoints(crop, trial, tps, meg_index) ==
    IF tps = << >> THEN << >>
    ELSE LET tp == Head(tps)
             rest == JoinTimepoints(crop, trial, Tail(tps), meg_index + 1)
         IN  IF <<trial, tp>> \in DOMAIN crop
             THEN <<[timepoint |-> tp, sceneID |-> crop[<<trial, tp>>],
                     crop_identifier |-> <<trial, tp>>, meg_index |-> meg_index]>> \o rest
             ELSE rest

\* The loop over the trials: a trial gets a key in the combined dict with
\* its first timepoint that has a crop.
RECURSIVE JoinTrials(_, _, _)
JoinTrials(crop, trials, meg_index) ==
    IF trials = << >> THEN << >>
    ELSE LET tr == Head(trials)
             joined == JoinTimepoints(crop, tr.trial, tr.timepoints, meg_index)
             rest == JoinTrials(crop, Tail(trials), meg_index + Len(tr.timepoints))
         IN  IF joined = << >> THEN rest
             ELSE <<[trial |-> tr.trial, timepoints |-> joined]>> \o rest

\* create_combined_metadata_dict, for the session.
CombinedMetadata(meg, crop) == JoinTrials(crop, meg, 0)

\* The first loops of create_train_test_split: scene_ids, the scenes in the
\* order of their first timepoint, each with the trials it occurs in.
AddSceneTrial(scenes, scene, trial) ==
    IF \A i \in 1..Len(scenes) : scenes[i].scene # scene
    THEN Append(scenes, [scene |-> scene, trials |-> <<trial>>])
    ELSE [i \in 1..Len(scenes) |->
            IF scenes[i].scene = scene /\ ~InSeq(trial, scenes[i].trials)
            THEN [scenes[i] EXCEPT !.trials = Append(@, trial)]
            ELSE scenes[i]]

RECURSIVE ScenesOfTimepoints(_, _, _)
ScenesOfTimepoints(scenes, trial, tps) ==
    IF tps = << >> THEN scenes
    ELSE ScenesOfTimepoints(AddSceneTrial(scenes, Head(tps).sceneID, trial), trial, Tail(tps))

RECURSIVE ScenesOfTrials(_, _)
ScenesOfTrials(scenes, trials) ==
    IF trials = << >> THEN scenes
    ELSE ScenesOfTrials(ScenesOfTimepoints(scenes, Head(trials).trial, Head(trials).timepoints),
                        Tail(trials))

\* The trials in the order of the split loop: scene by scene.
RECURSIVE TrialsByScene(_)
TrialsByScene(scenes) ==
    IF scenes = << >> THEN << >> ELSE Head(scenes).trials \o TrialsByScene(Tail(scenes))

\* int(num_trials*0.8)
NumTrialsTrain(num_trials) == (num_trials * 8) \div 10

\* create_train_test_split, for the session: the assertion, then the first
\* num_trials_train entries of the scene-ordered trials go to train and the
\* others to test.
TrainTestSplit(combined) ==
    LET scene_ids == ScenesOfTrials(<< >>, combined)
        num_trials == Len(combined)
        ordered == TrialsByScene(scene_ids)
        k == Min({NumTrialsTrain(num_trials), Len(ordered)})
    IN  IF Len(scene_ids) # num_trials THEN Raise("AssertionError")
        ELSE Return([train |-> SubSeq(ordered, 1, k),
                     test |-> SubSeq(ordered, k + 1, Len(ordered))])

\* if trial_id in trials_split_dict["train"] ... elif ... ["test"] ... else
TrialType(split, trial) ==
    IF InSeq(trial, split.train) THEN "train"
    ELSE IF InSeq(trial, split.test) THEN "test"
    ELSE "neither"

AppendTo(ds, type, sample) == [ds EXCEPT ![type] = Append(@, sample)]

\* The loops of create_crop_dataset: the crops of the combined metadata, in
\* its order, each appended to the split of its trial.
RECURSIVE CropTimepoints(_, _, _, _)
CropTimepoints(ds, type, trial, tps) ==
    IF tps = << >> THEN ds
    ELSE CropTimepoints(AppendTo(ds, type, [trial |-> trial, timepoint |-> Head(tps).timepoint,
                                             crop |-> Head(tps).crop_identifier]),
                        type, trial, Tail(tps))

RECURSIVE CropTrials(_, _, _)
CropTrials(ds, split, trials) ==
    IF trials = << >> THEN Return(ds)
    ELSE LET type == TrialType(split, Head(trials).trial)
         IN  IF type = "neither" THEN Raise("ValueError")
             ELSE CropTrials(CropTimepoints(ds, type, Head(trials).trial,
                                            Head(trials).timepoints),
                             split, Tail(trials))

NoSamples == [train |-> << >>, test |-> << >>]

\* create_crop_dataset, for the session; np.stack raises on a split without
\* a crop.
CropDataset(combined, split) ==
    LET r == CropTrials(NoSamples, split, combined)
    IN  IF r.err # "none" THEN r
        ELSE IF \E s \in Splits : Only(r.ret)[s] = << >> THEN Raise("ValueError")
        ELSE r

\* The timepoints of one trial of the combined metadata.
CombinedTimepointsOf(combined, trial) ==
    UNION {{combined[i].timepoints[j].timepoint : j \in 1..Len(combined[i].timepoints)} :
              i \in {i \in 1..Len(combined) : combined[i].trial = trial}}

InCombined(combined, trial) == \E i \in 1..Len(combined) : combined[i].trial = trial

\* A selection that appends every timepoint of a trial in a split.
KeepsTimepoint_All(combined, trial, tp) == TRUE

\* if timepoint in combined_metadata[...][trial_id]["timepoints"]
KeepsTimepoint(combined, trial, tp) == tp \in CombinedTimepointsOf(combined, trial)

\* The inner loop of create_meg_dataset over one trial of a split: the
\* epoch at the running index is appended when the timepoint is in the
\* combined metadata, and the index advances with every timepoint.
RECURSIVE MegTimepoints(_, _, _, _, _)
MegTimepoints(st, combined, type, trial, tps) ==
    IF tps = << >> THEN st
    ELSE LET tp == Head(tps)
             visit == [trial |-> trial, timepoint |-> tp, index |-> st.index]
             kept == IF KeepsTimepoint(combined, trial, tp)
                     THEN AppendTo(st.ds, type, [trial |-> trial, timepoint |-> tp,
                                                 epoch |-> st.index])
                     ELSE st.ds
         IN  MegTimepoints([st EXCEPT !.ds = kept, !.index = @ + 1,
                                      !.visits = Append(@, visit)],
                           combined, type, trial, Tail(tps))

\* The loop over the trials of the meg metadata; a trial in neither split
\* raises when it is in the combined metadata, and is skipped with
\* index += 1 otherwise.
RECURSIVE MegTrials(_, _, _, _)
MegTrials(st, combined, split, trials) ==
    IF trials = << >> THEN st
    ELSE LET tr == Head(trials)
             type == TrialType(split, tr.trial)
         IN  IF type = "neither"
             THEN IF InCombined(combined, tr.trial)
                  THEN [st EXCEPT !.err = "ValueError"]
                  ELSE MegTrials([st EXCEPT !.index = @ + 1], combined, split, Tail(trials))
             ELSE MegTrials(MegTimepoints(st, combined, type, tr.trial, tr.timepoints),
                            combined, split, Tail(trials))

\* create_meg_dataset, for the session: index = 0, the loops, the export.
MegDataset(meg, combined, split) ==
    MegTrials([ds |-> NoSamples, index |-> 0, visits |-> << >>, err |-> "none"],
              combined, split, meg)

\* DataLoader(torch_crop_ds[split], batch_size=self.batch_size, shuffle=False):
\* the batches, in the order of the data set (batch_size is 32 in the code).
BatchSize == 2
RECURSIVE Batches(_)
Batches(samples) ==
    IF samples = << >> THEN << >>
    ELSE LET k == Min({BatchSize, Len(samples)})
         IN  <<SubSeq(samples, 1, k)>> \o Batches(SubSeq(samples, k + 1, Len(samples)))

\* extractor.extract_features(batches=...): one feature vector per image,
\* batch after batch.
RECURSIVE ExtractFeatures(_)
ExtractFeatures(batches) ==
    IF batches = << >> THEN << >>
    ELSE [k \in 1..Len(Head(batches)) |->
             [trial |-> Head(batches)[k].trial, timepoint |-> Head(batches)[k].timepoint,
              features_of |-> Head(batches)[k].crop]]
         \o ExtractFeatures(Tail(batches))

\* The ann_features of one split of the crop data set.
AnnFeatures(crops) == ExtractFeatures(Batches(crops))

\* The metadata files of a session are there; nothing has been built.
InitData ==
    /\ InitBankVars
    /\ files = StoreFiles
    /\ store = [p \in StoragePaths |-> {}]
    /\ lossesFile = {}
    /\ pc = "idle"
    /\ im = 1
    /\ ip = 1
    /\ ridge = NewRidgeBank(DefaultAlpha, << >>, FALSE)
    /\ losses = << >>
    /\ result = NoResult
    /\ folders = {}
    /\ saver = << >>
    /\ io = NoIo
    /\ report = NoReport
    /\ \E meg \in MegMetadatas : \E crop \in CropMetadatas(meg) :
           metadata = [meg_metadata |-> meg, crop_metadata |-> crop,
                       combined_metadata |-> {}]
    /\ trialSplits = {}
    /\ cropData = {}
    /\ megData = {}
    /\ prep = NoPrep

otherVars == <<bankVars, defaultModels, files, store, lossesFile, pc, im, ip, ridge,
               losses, result, folders, saver, io, report>>

CreateCombinedMetadataDict ==
    /\ metadata' = [metadata EXCEPT !.combined_metadata =
                       {CombinedMetadata(metadata.meg_metadata, metadata.crop_metadata)}]
    /\ prep' = [op |-> "create_combined_metadata_dict", err |-> "none", visits |-> << >>]
    /\ UNCHANGED <<trialSplits, cropData, megData, otherVars>>

\* read_dict_from_json("combined_metadata") raises when the file is missing.
CreateTrainTestSplit ==
    /\ LET r == IF metadata.combined_metadata = {} THEN Raise("FileNotFoundError")
                ELSE TrainTestSplit(Only(metadata.combined_metadata))
       IN  /\ trialSplits' = IF r.err = "none" THEN r.ret ELSE trialSplits
           /\ prep' = [op |-> "create_train_test_split", err |-> r.err, visits |-> << >>]
    /\ UNCHANGED <<metadata, cropData, megData, otherVars>>

\* The combined metadata and the trial splits are read from their files.
CreateCropDataset ==
    /\ LET r == IF metadata.combined_metadata = {} \/ trialSplits = {}
                THEN Raise("FileNotFoundError")
                ELSE CropDataset(Only(metadata.combined_metadata), Only(trialSplits))
       IN  /\ cropData' = IF r.err = "none" THEN r.ret ELSE cropData
           /\ prep' = [op |-> "create_crop_dataset", err |-> r.err, visits |-> << >>]
    /\ UNCHANGED <<metadata, trialSplits, megData, otherVars>>

CreateMegDataset ==
    /\ IF metadata.combined_metadata = {} \/ trialSplits = {}
       THEN /\ prep' = [op |-> "create_meg_dataset", err |-> "FileNotFoundError",
                        visits |-> << >>]
            /\ UNCHANGED megData
       ELSE LET r == MegDataset(metadata.meg_metadata, Only(metadata.combined_metadata),
                                Only(trialSplits))
            IN  /\ megData' = IF r.err = "none" THEN {r.ds} ELSE megData
                /\ prep' = [op |-> "create_meg_dataset", err |-> r.err, visits |-> r.visits]
    /\ UNCHANGED <<metadata, trialSplits, cropData, otherVars>>

NextData ==
    \/ CreateCombinedMetadataDict
    \/ CreateTrainTestSplit
    \/ CreateCropDataset
    \/ CreateMegDataset

SpecData == InitData /\ [][NextData]_vars

\* ------------------------------------------------------- the spec's errors
\* The design's error names for the exceptions the code raises: an empty or
\* coefficient-less bank is "not fitted", a rejected array shape is a "shape
\* mismatch", a missing file is "not found".
ErrorClass(e) ==
    CASE e \in {"IndexError", "AttributeError", "NotFittedError"} -> "NotFittedError"
      [] e = "ValueError" -> "ShapeMismatchError"
      [] e = "FileNotFoundError" -> "NotFoundError"
      [] OTHER -> e

\* =================================================================== claims

\* A helper call has ended (normally or by an exception) and no other runs.
Finished(op) == pc = "idle" /\ result.op = op

Stored(s) == store[StoragePath(s)] # {}

\* train_mapping's iteration for s raises: a file of s is missing, or the
\* train split holds no sample for Ridge.fit.
TrainingFails(s) ==
    \/ \E split \in Splits : files[s][split] = "absent"
    \/ files[s]["train"] = "empty"

\* Session s has test data the evaluator can load and score.
HasTestData(s) ==
    /\ \A split \in Splits : files[s][split] # "absent"
    /\ files[s]["test"] = "ok"

\* The (train session, eval session) pairs a losses dict holds a value for.
CellsOf(ls) ==
    {c \in Sessions \X Sessions : c[1] \in DOMAIN ls /\ c[2] \in DOMAIN ls[c[1]]}

\* The dicts a run has produced: the one in memory and the one on disk.
\* The matrices the losses file holds (none, or one).
StoredMatrices == {MatrixOf(JsonLoad(doc)) : doc \in lossesFile}

LossDicts == {losses} \cup StoredMatrices

\* C1 (as claimed): after train_mapping has run over sessions of which
\* exactly one fails to load or fit, every other session has its bank
\* persisted and the failing one has none.
C1_TrainingFailureIsolated ==
    (Finished("train_mapping")
       /\ Cardinality({s \in Sessions : TrainingFails(s)}) = 1)
        => \A s \in Sessions : Stored(s) <=> ~TrainingFails(s)

\* C2: when every session has a stored bank and test data, a finished
\* predict_from_mapping has returned normally and has stored an error matrix
\* with exactly one value for every ordered pair of sessions, the diagonal
\* included, and with no other key.
C2_EvaluationComplete ==
    (Finished("predict_from_mapping")
       /\ \A s \in Sessions : Stored(s) /\ HasTestData(s))
        => /\ result.err = "none"
           /\ StoredMatrices = {losses}
           /\ DOMAIN losses = Sessions
           /\ \A m \in Sessions : DOMAIN losses[m] = Sessions

C2_Witness ==
    /\ Finished("predict_from_mapping")
    /\ \A s \in Sessions : Stored(s) /\ HasTestData(s)
    /\ result.err = "none"
    /\ CellsOf(Only(StoredMatrices)) = Sessions \X Sessions

\* C3 (as claimed): when the stored bank of exactly one train session is
\* absent and every session has test data, predict_from_mapping ends without
\* an exception and reports the complete rows of all other train sessions.
C3_MissingModelRecovered ==
    (Finished("predict_from_mapping")
       /\ Cardinality({m \in Sessions : ~Stored(m)}) = 1
       /\ \A s \in Sessions : HasTestData(s))
        => /\ result.err = "none"
           /\ \E d \in StoredMatrices :
                  \A m \in Sessions :
                      Stored(m) => (m \in DOMAIN d /\ DOMAIN d[m] = Sessions)

\* The models a recorded value was predicted with.
ModelsUsed(cell) == [t \in DOMAIN cell.y_pred |-> cell.y_pred[t].model]

\* C4: every recorded value of row m was predicted with the models stored
\* under m's own path; a row whose bank is absent holds no value, and a run
\* that met an absent bank has ended with an exception.
C4_NoSilentDefaultModel ==
    /\ \A ls \in LossDicts : \A c \in CellsOf(ls) :
           /\ Stored(c[1])
           /\ ModelsUsed(ls[c[1]][c[2]]) = PickleLoad(Only(store[StoragePath(c[1])]))
           /\ ModelsUsed(ls[c[1]][c[2]]) # << >>
    /\ (Finished("predict_from_mapping") /\ \E m \in Sessions : ~Stored(m))
           => result.err # "none"

C4_Witness ==
    /\ Finished("predict_from_mapping")
    /\ ErrorClass(result.err) = "NotFoundError"
    /\ \E m \in Sessions : ~Stored(m) /\ m \in DOMAIN losses /\ DOMAIN losses[m] = {}
    /\ \E m \in Sessions : Stored(m) /\ <<m, m>> \in CellsOf(losses)

\* C5: every recorded value of pair (m, p) compares the test sensor tensor
\* of p with predictions made from the test features of p by models that
\* were solved from the train split of m; so the diagonal value of s is the
\* bank of s's train split scored on s's own test split.
C5_TestSplitOnly ==
    \A ls \in LossDicts : \A c \in CellsOf(ls) :
        LET cell == ls[c[1]][c[2]]
        IN  /\ cell.y_true = [t \in 1..DataShape.T |-> <<c[2], "test", t>>]
            /\ DOMAIN cell.y_pred = 1..DataShape.T
            /\ \A t \in 1..DataShape.T :
                   /\ cell.y_pred[t].x = <<c[2], "test">>
                   /\ cell.y_pred[t].model.kind = "ridge"
                   /\ cell.y_pred[t].model.x = <<c[1], "train">>
                   /\ cell.y_pred[t].model.y = <<c[1], "train", t>>

C5_Witness ==
    /\ \E s \in Sessions : <<s, s>> \in CellsOf(losses)
    /\ \E c \in CellsOf(losses) : c[1] # c[2]

\* C6: predict on a bank that was constructed without models and has never
\* been fit fails with the not-fitted error (the IndexError of
\* self.models[0]) and returns no prediction.
C6_PredictBeforeFitFails ==
    (life = "fresh" /\ out.op = "predict")
        => (ErrorClass(out.err) = "NotFittedError" /\ out.ret = {})

C6_Witness ==
    /\ life = "fresh"
    /\ out.op = "predict"
    /\ out.err = "IndexError"
    /\ bank.models = << >>

\* A bank holds fitted models of one input width: at least one model, each
\* with coef_ of the same number of features.
HoldsCoefficients(b) ==
    /\ Len(b.models) > 0
    /\ \A t \in 1..Len(b.models) :
           b.models[t].kind # "unfit" /\ b.models[t].nF = b.models[1].nF

\* C7: predict with a feature matrix whose F differs from the F of the bank's
\* models fails with the shape-mismatch error (ValueError) whether the bank
\* is in fitted or in random-baseline mode, and returns no prediction.
C7_FeatureMismatchFails ==
    (out.op = "predict" /\ HoldsCoefficients(bank) /\ out.X.F # bank.models[1].nF)
        => (ErrorClass(out.err) = "ShapeMismatchError" /\ out.ret = {})

C7_Witness ==
    /\ out.op = "predict"
    /\ bank.random_weights
    /\ HoldsCoefficients(bank)
    /\ bank.models[1].kind = "random"
    /\ out.X.F # bank.models[1].nF
    /\ out.X.n > 0
    /\ out.err = "ValueError"

\* The last fit on bank returned normally, and bank is still the object that
\* fit left.
ValidFitDone == life = "fit" /\ lastFit.err = "none"

ExpectedModels(b, f) ==
    [t \in 1..NTimepoints(f.Y) |->
        IF f.err # "none"
        THEN [alpha |-> b.alpha, kind |-> "unfit", nS |-> 0, nF |-> 0,
              x |-> NoId, y |-> NoId]
        ELSE IF b.random_weights
        THEN [alpha |-> b.alpha, kind |-> "random", nS |-> f.Y.S, nF |-> f.X.F,
              x |-> NoId, y |-> <<f.rng, t>>]
        ELSE [alpha |-> b.alpha, kind |-> "ridge", nS |-> f.Y.S, nF |-> f.X.F,
              x |-> f.X.id, y |-> f.Y.slices[t]]]

\* C9: a fit on a bank that already holds models leaves the bank with exactly
\* the T models of that fit, whatever it held before, also when it held more
\* than T.
C9_RefitReplacesAll ==
    life = "fit" => bank.models = ExpectedModels(bank, lastFit)

C9_Witness ==
    /\ life = "fit"
    /\ lastFit.shrunk
    /\ lastFit.err = "none"
    /\ NTimepoints(lastFit.Y) > 0
    /\ Len(bank.models) = NTimepoints(lastFit.Y)

\* C10: a predict call leaves the bank's models, alpha and mode flag as they
\* were, and a predict that follows a predict with the same X returns the
\* same outcome.
C10_PredictIsPure ==
    [][out'.op = "predict" =>
          /\ bank'.models = bank.models
          /\ bank'.alpha = bank.alpha
          /\ bank'.random_weights = bank.random_weights
          /\ (out.op = "predict" /\ out.X = out'.X) =>
                 (out'.err = out.err /\ out'.ret = out.ret)]_vars

C10_Witness ==
    /\ life = "fit"
    /\ out.op = "predict"
    /\ out.err = "none"
    /\ Len(bank.models) = MaxT

\* C11 (as claimed): a predict on a bank that was read back from the store
\* ends as the same predict on the bank object the file was written from:
\* the same exception, or the same array.
C11_RoundTripPreservesPredict ==
    (life = "loaded" /\ out.op = "predict")
        => \A o \in io.origin :
               /\ out.err = Predict(o, out.X).err
               /\ out.ret = Predict(o, out.X).ret

\* C12: the store step under any key, on any state of the store, ends without
\* an exception, leaves the bank's models under that key and every folder
\* of its path in place, leaves the files of all other keys as they were,
\* and a second store step with the same bank changes nothing.
C12_SaveIsIdempotentOverwrite ==
    /\ io.op = "save" => io.err = "none"
    /\ \A k \in StoreKeys :
           LET once == SaveModels(store, folders, k, bank.models)
               twice == SaveModels(once.store, once.folders, k, bank.models)
           IN  /\ once.err = "none"
               /\ once.store[SavePath(k)] = {PickleDump(bank.models)}
               /\ FolderChain(k) \subseteq once.folders
               /\ \A j \in StoreKeys \ {k} : once.store[SavePath(j)] = store[SavePath(j)]
               /\ twice.err = "none"
               /\ twice.store = once.store
               /\ twice.folders = once.folders

C12_Witness ==
    /\ io.op = "save"
    /\ io.err = "none"
    /\ io.replaced
    /\ store[SavePath(io.key)] = {PickleDump(bank.models)}
    /\ \E j \in StoreKeys \ {io.key} : BlobKind(store, SavePath(j)) = "intact"

\* C13: a load under a key with no file ends with the not-found error
\* (FileNotFoundError) and returns nothing; a load of a damaged file ends
\* with another exception, and FileNotFoundError is raised for a missing
\* file only.
C13_LoadMissingIsNotFound ==
    io.op = "load" =>
        /\ io.saw = "absent" => (ErrorClass(io.err) = "NotFoundError" /\ io.ret = {})
        /\ io.saw = "damaged" =>
               (io.err # "none" /\ ErrorClass(io.err) # "NotFoundError" /\ io.ret = {})
        /\ ErrorClass(io.err) = "NotFoundError" => io.saw = "absent"

C13_Witness ==
    /\ io.op = "load"
    /\ io.saw = "absent"
    /\ io.err = "FileNotFoundError"
    /\ \E j \in StoreKeys : BlobKind(store, SavePath(j)) = "damaged"

\* Two different keys never share a path.
PathsInjective ==
    \A k1, k2 \in AllKeys : k1 # k2 => SavePath(k1) # SavePath(k2)

\* C14: different (ann_model, module_name, subject_id, session id) tuples,
\* of names that are single path segments, have different storage paths, and
\* the file under a key holds the models of the bank that was last stored
\* under that very key, whatever was stored under other keys since.
C14_KeysCollisionFree ==
    /\ PathsInjective
    /\ \A k \in DOMAIN saver : \A b \in saver[k] :
           store[SavePath(k)] = {PickleDump(b.models)}

C14_Witness ==
    /\ io.op = "save"
    /\ \E k1, k2 \in StoreKeys :
           /\ k1 # k2
           /\ saver[k1] # {}
           /\ saver[k2] # {}
           /\ saver[k1] # saver[k2]
           /\ k1[4] = k2[4]

\* The last call of visualize_GLM_results in each mode.
ByDistance == report[TRUE]
BySession == report[FALSE]
Plotted(r) == r.op = "visualize_GLM_results" /\ r.err = "none"

\* The cells of an error matrix at distance d, and the sum of a set of cells.
CellsAt(ls, d) ==
    {c \in CellsOf(ls) : (IF c[1] > c[2] THEN c[1] - c[2] ELSE c[2] - c[1]) = d}
RECURSIVE SumOver(_, _)
SumOver(ls, cells) ==
    IF cells = {} THEN 0
    ELSE LET c == CHOOSE x \in cells : TRUE
         IN  ls[c[1]][c[2]] + SumOver(ls, cells \ {c})
RECURSIVE SumOfNums(_, _)
SumOfNums(f, ds) ==
    IF ds = {} THEN 0
    ELSE LET d == CHOOSE x \in ds : TRUE IN f[d] + SumOfNums(f, ds \ {d})

\* C15: when the only_distance branch has plotted, then for every distance
\* d >= 1 that occurs in the error matrix avg_losses[d] is the sum of exactly
\* the cells with |i - j| = d divided by their number, and num_datapoints[d]
\* is that number.
C15_AggregationCorrect ==
    Plotted(ByDistance) =>
        \A ls \in StoredMatrices : \A sr \in ByDistance.series :
            \A d \in 1..NSessions :
                CellsAt(ls, d) # {} =>
                    /\ d \in DOMAIN sr.avg_losses
                    /\ sr.avg_losses[d] =
                           Quot(SumOver(ls, CellsAt(ls, d)), Cardinality(CellsAt(ls, d)))
                    /\ sr.num_datapoints[d] = Cardinality(CellsAt(ls, d))

C15_Witness ==
    /\ Plotted(ByDistance)
    /\ \E ls \in StoredMatrices :
           /\ {<<1, 2>>, <<2, 1>>} \subseteq CellsOf(ls)
           /\ ls[1][2] # ls[2][1]
           /\ Cardinality(CellsAt(ls, 1)) > 2
           /\ \E sr \in ByDistance.series : sr.avg_losses[1].num > 0

\* C16: the only_distance branch reports nothing for distance 0, and its
\* sums and counts over all distances are those of the off-diagonal cells
\* alone; the other branch puts out every session's diagonal value, as it
\* is in the matrix, as the self-prediction series.
C16_DiagonalExcluded ==
    \A ls \in StoredMatrices :
        LET others == {c \in CellsOf(ls) : c[1] # c[2]}
        IN  /\ Plotted(ByDistance) =>
                   \A sr \in ByDistance.series :
                       /\ 0 \notin DOMAIN sr.avg_losses
                       /\ 0 \notin DOMAIN sr.num_datapoints
                       /\ SumOfNums(sr.num_datapoints, DOMAIN sr.num_datapoints)
                              = Cardinality(others)
                       /\ SumOfNums([d \in DOMAIN sr.avg_losses |-> sr.avg_losses[d].num],
                                    DOMAIN sr.avg_losses) = SumOver(ls, others)
            /\ Plotted(BySession) =>
                   \A sr \in BySession.series :
                       /\ DOMAIN sr.self_prediction_mses = DOMAIN ls
                       /\ \A k \in DOMAIN ls : sr.self_prediction_mses[k] = ls[k][k]

C16_Witness ==
    /\ Plotted(ByDistance)
    /\ Plotted(BySession)
    /\ \E ls \in StoredMatrices : \E k \in DOMAIN ls :
           /\ ls[k][k] # 0
           /\ ls[k][k] # ls[k][Min(DOMAIN ls[k])]

\* C17 (as claimed): for the error matrix of any number n >= 1 of sessions
\* visualize_GLM_results ends without an exception, its only_distance branch
\* reports exactly the distances 1..n-1, and its other branch averages every
\* session's column over the n-1 other sessions.
C17_AnySessionCount ==
    \A n \in 1..NSessions : \A ls \in StoredMatrices :
        CellsOf(ls) = (1..n) \X (1..n) =>
            /\ ByDistance.op # "none" =>
                   /\ ByDistance.err = "none"
                   /\ \A sr \in ByDistance.series : DOMAIN sr.avg_losses = 1..(n - 1)
            /\ BySession.op # "none" =>
                   /\ BySession.err = "none"
                   /\ \A sr \in BySession.series : \A k \in 1..n :
                          n > 1 =>
                              SameQuot(sr.average_prediction_mses[k],
                                       Quot(SumOver(ls, {c \in CellsOf(ls) :
                                                            c[2] = k /\ c[1] # k}),
                                            n - 1))

AnyMse == [y_true |-> << >>, y_pred |-> << >>]

\* A step of predict_from_mapping's loops: the values in the matrix stay,
\* at most the value of the evaluated pair is added, in a cell that was
\* empty; and recording any pair in the new matrix changes no other cell.
SingleWriterStep ==
    pc \in {"load", "pair"} =>
        /\ \A c \in CellsOf(losses) :
               /\ c \in CellsOf(losses')
               /\ losses'[c[1]][c[2]] = losses[c[1]][c[2]]
        /\ CellsOf(losses') \ CellsOf(losses)
               \subseteq (IF pc = "pair" THEN {<<im, ip>>} ELSE {})
        /\ pc = "pair" => <<im, ip>> \notin CellsOf(losses)
        /\ \A m \in DOMAIN losses' : \A p \in Sessions :
               LET w == RecordLoss(losses', m, p, AnyMse)
               IN  /\ CellsOf(w) = CellsOf(losses') \cup {<<m, p>>}
                   /\ \A c \in CellsOf(losses') \ {<<m, p>>} :
                          w[c[1]][c[2]] = losses'[c[1]][c[2]]

BankOf(s) ==
    [t \in 1..DataShape.T |->
        [alpha |-> DefaultAlpha, kind |-> "ridge", nS |-> DataShape.S,
         nF |-> DataShape.F, x |-> <<s, "train">>, y |-> <<s, "train", t>>]]

KindsOf(models) == {models[t].kind : t \in 1..Len(models)}

\* C21: the models of a bank are all of one kind, never some solved by
\* regression and some drawn at random: after a fit that returned they are
\* the T models of that fit's mode, and the list that the store step would
\* pickle and the load step would build a bank around is the same list.
C21_NeverMixed ==
    /\ Cardinality(KindsOf(bank.models)) <= 1
    /\ ValidFitDone =>
           /\ Len(bank.models) = NTimepoints(lastFit.Y)
           /\ KindsOf(bank.models)
                  \subseteq {IF bank.random_weights THEN "random" ELSE "ridge"}
    /\ LET loaded == NewRidgeBank(DefaultAlpha, PickleLoad(PickleDump(bank.models)), FALSE)
       IN  KindsOf(loaded.models) = KindsOf(bank.models)

C21_Witness ==
    /\ ValidFitDone
    /\ lastFit.shrunk
    /\ bank.random_weights
    /\ KindsOf(bank.models) = {"random"}

\* The cells the two loops have passed when the outer loop is at m and the
\* inner one at p.
CellsBefore(m, p) ==
    {c \in Sessions \X Sessions : c[1] < m \/ (c[1] = m /\ c[2] < p)}

\* C22: every off-diagonal value (i, j) comes from its own evaluation, the
\* models of i applied to the test data of j; while the loops run, no cell
\* holds a value before its own pair has been evaluated, and where both
\* (i, j) and (j, i) hold a value the two are the outcomes of two different
\* evaluations, never one copied into the other.
C22_NotForcedSymmetric ==
    /\ \A ls \in LossDicts : \A c \in CellsOf(ls) :
           c[1] # c[2] =>
               LET cell == ls[c[1]][c[2]]
               IN  /\ \A t \in DOMAIN cell.y_pred :
                          /\ cell.y_pred[t].model.x = <<c[1], "train">>
                          /\ cell.y_pred[t].x = <<c[2], "test">>
                   /\ \A t \in DOMAIN cell.y_true : cell.y_true[t] = <<c[2], "test", t>>
                   /\ <<c[2], c[1]>> \in CellsOf(ls) => ls[c[2]][c[1]] # cell
    /\ pc = "pair" => CellsOf(losses) \subseteq CellsBefore(im, ip)
    /\ pc = "load" => CellsOf(losses) \subseteq CellsBefore(im, 1)

C22_Witness ==
    /\ Finished("predict_from_mapping")
    /\ result.err = "none"
    /\ StoredMatrices = {losses}
    /\ CellsOf(losses) = Sessions \X Sessions
    /\ \E i, j \in Sessions : i # j /\ losses[i][j] # losses[j][i]

C24_TimepointIndependent ==
    (ValidFitDone /\ ~bank.random_weights) =>
        /\ \A t \in 1..Len(bank.models) :
               /\ bank.models[t].alpha = bank.alpha
               /\ bank.models[t].nF = lastFit.X.F
               /\ bank.models[t].x = lastFit.X.id
               /\ bank.models[t].y = lastFit.Y.slices[t]
        /\ \A Y2 \in BankYs :
               (Y2.n = lastFit.Y.n /\ Y2.S = lastFit.Y.S) =>
                   LET other == Fit(NewRidgeBank(bank.alpha, << >>, FALSE),
                                    lastFit.X, Y2, lastFit.rng).bank.models
                   IN  \A t \in 1..Min({Len(other), Len(bank.models)}) :
                           Y2.slices[t] = lastFit.Y.slices[t] => other[t] = bank.models[t]

C24_Witness ==
    /\ ValidFitDone
    /\ ~bank.random_weights
    /\ Len(bank.models) = MaxT
    /\ lastFit.Y.slices[1] # lastFit.Y.slices[MaxT]
    /\ bank.models[1] # bank.models[MaxT]
    /\ bank.models[1].alpha = bank.models[MaxT].alpha

\* The splits that hold samples of a scene: the split of every trial of the
\* combined metadata that has a timepoint with that sceneID.
SplitsOfScene(combined, split, scene) ==
    {TrialType(split, combined[i].trial) :
        i \in {i \in 1..Len(combined) :
                  \E j \in 1..Len(combined[i].timepoints) :
                      combined[i].timepoints[j].sceneID = scene}}

\* C25 (as claimed): once create_train_test_split has written the trial
\* splits of a session, which it does only when its assertion holds, no
\* scene has samples in the train split and in the test split.
C25_SceneDisjointSplit ==
    \A split \in trialSplits : \A combined \in metadata.combined_metadata :
        \A scene \in SceneIds : Cardinality(SplitsOfScene(combined, split, scene)) <= 1

EpochIndexOf(meg, trial, tp) ==
    LET it == CHOOSE i \in 1..Len(meg) : meg[i].trial = trial
        jt == CHOOSE j \in 1..Len(meg[it].timepoints) : meg[it].timepoints[j] = tp
    IN  Cardinality({c \in MegPairs(meg) :
            \E i \in 1..Len(meg) : \E j \in 1..Len(meg[i].timepoints) :
                /\ c = <<meg[i].trial, meg[i].timepoints[j]>>
                /\ (i < it \/ (i = it /\ j < jt))})

\* C29 (as claimed): at every (trial, timepoint) that create_meg_dataset
\* visits, the running index is the number of timepoints before it in the
\* meg metadata, also after skipped trials; and every sample of the meg data
\* set is the epoch of the (trial, timepoint) it was appended for.
C29_MegEpochAligned ==
    /\ prep.op = "create_meg_dataset" =>
           \A k \in 1..Len(prep.visits) :
               prep.visits[k].index
                   = EpochIndexOf(metadata.meg_metadata, prep.visits[k].trial,
                                  prep.visits[k].timepoint)
    /\ \A ds \in megData : \A s \in Splits : \A k \in 1..Len(ds[s]) :
           ds[s][k].epoch
               = EpochIndexOf(metadata.meg_metadata, ds[s][k].trial, ds[s][k].timepoint)

\* One iteration of train_mapping: the files of the sessions before im are
\* there with their banks; the iteration touches no file but that of im; when
\* it raises, it writes nothing and the call ends at im; otherwise it leaves
\* the fitted models of im in im's file and goes on to im + 1, or returns
\* after the last session.
TrainThenPersistStep ==
    pc = "train" =>
        /\ \A s \in 1..(im - 1) : store[StoragePath(s)] = {PickleDump(BankOf(s))}
        /\ \A s \in Sessions \ {im} : store'[StoragePath(s)] = store[StoragePath(s)]
        /\ IF pc' = "idle" /\ result'.err # "none"
           THEN /\ store' = store
                /\ im' = im
                /\ TrainingFails(im)
           ELSE /\ ~TrainingFails(im)
                /\ ridge'.models = BankOf(im)
                /\ store'[StoragePath(im)] = {PickleDump(ridge'.models)}
                /\ IF im < NSessions
                   THEN im' = im + 1 /\ pc' = "train"
                   ELSE pc' = "idle" /\ result' = Ended("train_mapping", "none")

\* C27: train_mapping takes the sessions in the order of session_ids_num and
\* writes the file of a session after its fit, with the fitted models; a
\* call that stops with an exception at session k has written the files of
\* all sessions before k and none of k or of a later session.
C27_TrainThenPersist == [][TrainThenPersistStep]_vars

C27_Witness ==
    /\ Finished("train_mapping")
    /\ result.err # "none"
    /\ im > 1
    /\ im < NSessions
    /\ \A s \in 1..(im - 1) : Stored(s)
    /\ \A s \in im..NSessions : ~Stored(s)

\* A step of predict_from_mapping, its call included: the losses file is
\* written by the step that returns, which is the step of the last pair, and
\* then holds the full matrix of the call; every other step, one that raises
\* included, leaves the file as it was.
AllOrNothingStep ==
    (pc \in {"load", "pair"} \/ pc' = "load") =>
        IF pc' = "idle" /\ result'.err = "none"
        THEN /\ pc = "pair"
             /\ im = NSessions
             /\ ip = NSessions
             /\ CellsOf(losses') = Sessions \X Sessions
             /\ {MatrixOf(JsonLoad(doc)) : doc \in lossesFile'} = {losses'}
        ELSE lossesFile' = lossesFile

\* C28: predict_from_mapping writes the error-matrix file once, after all
\* pairs have been evaluated; a call that fails at a bank, at the data or at
\* a prediction writes no file and leaves an earlier file unchanged.
C28_AllOrNothingLosses == [][AllOrNothingStep]_vars

C28_Witness ==
    /\ Finished("predict_from_mapping")
    /\ result.err # "none"
    /\ lossesFile # {}
    /\ CellsOf(Only(StoredMatrices)) = Sessions \X Sessions
    /\ CellsOf(losses) # {}
    /\ CellsOf(losses) # Sessions \X Sessions

\* C30: the list behind the default models=[] is empty at all times, and a
\* bank constructed without a models argument holds no models until it is
\* fitted, however many banks were constructed, fitted or used before it.
C30_FreshBanksEmpty ==
    /\ defaultModels = << >>
    /\ life = "fresh" => bank.models = << >>

C30_Witness ==
    /\ life = "fresh"
    /\ bank.models = << >>
    /\ bank.random_weights
    /\ bank.alpha # DefaultAlpha
    /\ out.op = "predict"
    /\ out.err = "IndexError"

=============================================================================
